---- MODULE Spec2Model ----
(***************************************************************************)
(* Model of dashboard/dashboard.py: the Streamlit script that loads the    *)
(* hourly bike-rental table, filters it by the selected date range,        *)
(* aggregates it per (dteday, workingday), correlates the weather columns  *)
(* and classifies every row into a weather category.                       *)
(*                                                                         *)
(* A DataFrame is a record [columns, index, rows]: the ordered column      *)
(* names, the index labels of the rows and the rows themselves (records    *)
(* keyed by column name).  Reals are fixed-point integers in tenths        *)
(* (0.6 is 6); a Timestamp is a number of hours since the epoch of the     *)
(* model and a datetime.date is a number of days.                          *)
(***************************************************************************)
EXTENDS Integers, Sequences, FiniteSets, TLC

VARIABLES data_hour, cache_loaded, cache, hour_df, date_range, user_type,
          pc, fault, filtered_df, metrics, daily_data, y_column, fig,
          corr_matrix, ref

vars == <<data_hour, cache_loaded, cache, hour_df, date_range, user_type,
          pc, fault, filtered_df, metrics, daily_data, y_column, fig,
          corr_matrix, ref>>

(***************************************************************************)
(* Bounds of the model.                                                    *)
(***************************************************************************)
MaxDay == 3
MaxRows == 2
MaxCasual == 2
MaxTenth == 10

(***************************************************************************)
(* Program constants.                                                      *)
(***************************************************************************)
HoursPerDay == 24

UserTypes == {"All", "Casual", "Registered"}

weather_vars == <<"temp", "atemp", "hum", "windspeed", "cnt">>

weather_desc ==
  [w \in 1..4 |-> CASE w = 1 -> "Clear/Partly Cloudy"
                    [] w = 2 -> "Mist/Cloudy"
                    [] w = 3 -> "Light Rain/Snow"
                    [] w = 4 -> "Heavy Rain/Ice Pallets"]

category_orders == <<"Ideal", "Good", "Moderate", "Poor">>

csv_columns == <<"dteday", "workingday", "weathersit", "temp", "atemp", "hum",
                 "windspeed", "casual", "registered", "cnt">>

(***************************************************************************)
(* Generic helpers.                                                        *)
(***************************************************************************)
Range(s) == {s[i] : i \in DOMAIN s}

RECURSIVE SumSeq(_)
SumSeq(s) == IF s = <<>> THEN 0 ELSE Head(s) + SumSeq(Tail(s))

Min(S) == CHOOSE x \in S : \A y \in S : x <= y

Max(S) == CHOOSE x \in S : \A y \in S : y <= x

RECURSIVE Gcd(_, _)
Gcd(a, b) == IF b = 0 THEN a ELSE Gcd(b, a % b)

(* the positions of a boolean mask, in order, that hold TRUE *)
RECURSIVE Positions(_, _, _)
Positions(mask, k, acc) ==
  IF k > Len(mask) THEN acc
  ELSE Positions(mask, k + 1, IF mask[k] THEN Append(acc, k) ELSE acc)

(***************************************************************************)
(* DataFrames.                                                             *)
(***************************************************************************)
NoFrame == [columns |-> <<>>, index |-> <<>>, rows |-> <<>>]

Column(df, c) == [k \in 1..Len(df.rows) |-> df.rows[k][c]]

(* df[mask]: a new frame holding the rows where the mask is true, with     *)
(* their index labels and all their columns                                *)
BoolIndex(df, mask) ==
  LET keep == Positions(mask, 1, <<>>)
  IN  [columns |-> df.columns,
       index   |-> [k \in 1..Len(keep) |-> df.index[keep[k]]],
       rows    |-> [k \in 1..Len(keep) |-> df.rows[keep[k]]]]

(* variant: the frame is re-indexed 0..n-1 when the column is set *)
SetColumn_reindexed(df, c, values) ==
  [columns |-> IF c \in Range(df.columns) THEN df.columns
               ELSE Append(df.columns, c),
   index   |-> [k \in 1..Len(df.rows) |-> k - 1],
   rows    |-> [k \in 1..Len(df.rows) |->
                  [f \in DOMAIN df.rows[k] \cup {c} |->
                     IF f = c THEN values[k] ELSE df.rows[k][f]]]]

(* df[c] = values: sets a column of the frame, appending it when new *)
SetColumn(df, c, values) ==
  [columns |-> IF c \in Range(df.columns) THEN df.columns
               ELSE Append(df.columns, c),
   index   |-> df.index,
   rows    |-> [k \in 1..Len(df.rows) |->
                  [f \in DOMAIN df.rows[k] \cup {c} |->
                     IF f = c THEN values[k] ELSE df.rows[k][f]]]]

(***************************************************************************)
(* load_data: pd.read_csv, then pd.to_datetime on dteday.  The file holds  *)
(* ISO dates (a day number here); to_datetime yields the Timestamp of      *)
(* midnight of that day.                                                   *)
(***************************************************************************)
to_datetime(day) == day * HoursPerDay

dt_date(ts) == ts \div HoursPerDay

read_csv(file) ==
  [columns |-> csv_columns,
   index   |-> [k \in 1..Len(file) |-> k - 1],
   rows    |-> file]

parse_hour(file) ==
  LET raw == read_csv(file)
  IN  [raw EXCEPT !.rows = [k \in 1..Len(raw.rows) |->
         [raw.rows[k] EXCEPT !.dteday = to_datetime(raw.rows[k].dteday)]]]

(***************************************************************************)
(* categorize(row)                                                         *)
(***************************************************************************)
(* variant: the Good rule is tried before the Ideal rule *)
categorize_reordered(row) ==
  IF row.weathersit \in {1, 2} /\ row.temp > 4 /\ row.hum < 7 THEN "Good"
  ELSE IF row.weathersit = 1 /\ row.temp > 6 /\ row.hum < 5 THEN "Ideal"
  ELSE IF row.weathersit \in {2, 3} /\ row.temp > 2 /\ row.hum < 8 THEN "Moderate"
  ELSE "Poor"

(* variant: the final else branch is missing, so the function falls off    *)
(* its end and returns None                                                *)
categorize_no_default(row) ==
  IF row.weathersit = 1 /\ row.temp > 6 /\ row.hum < 5 THEN "Ideal"
  ELSE IF row.weathersit \in {1, 2} /\ row.temp > 4 /\ row.hum < 7 THEN "Good"
  ELSE IF row.weathersit \in {2, 3} /\ row.temp > 2 /\ row.hum < 8 THEN "Moderate"
  ELSE "None"

categorize(row) ==
  IF row.weathersit = 1 /\ row.temp > 6 /\ row.hum < 5 THEN "Ideal"
  ELSE IF row.weathersit \in {1, 2} /\ row.temp > 4 /\ row.hum < 7 THEN "Good"
  ELSE IF row.weathersit \in {2, 3} /\ row.temp > 2 /\ row.hum < 8 THEN "Moderate"
  ELSE "Poor"

(***************************************************************************)
(* The date range filter of lines 49-52.                                   *)
(***************************************************************************)
(* variant: the end of the interval is exclusive *)
date_mask_exclusive(df, range) ==
  [k \in 1..Len(df.rows) |->
     /\ dt_date(df.rows[k].dteday) >= range[1]
     /\ dt_date(df.rows[k].dteday) < range[2]]

(* variant: the two comparisons are joined by | instead of & *)
date_mask_or(df, range) ==
  [k \in 1..Len(df.rows) |->
     \/ dt_date(df.rows[k].dteday) >= range[1]
     \/ dt_date(df.rows[k].dteday) <= range[2]]

date_mask(df, range) ==
  [k \in 1..Len(df.rows) |->
     /\ dt_date(df.rows[k].dteday) >= range[1]
     /\ dt_date(df.rows[k].dteday) <= range[2]]

date_filter(df, range) == BoolIndex(df, date_mask(df, range))

(***************************************************************************)
(* filtered_df.groupby(['dteday', 'workingday']).agg(sum).reset_index():   *)
(* one row per distinct key, keys in sorted order, the three ridership     *)
(* columns summed over the rows of the key, a fresh 0..n-1 index.          *)
(***************************************************************************)
KeyLess(a, b) == a[1] < b[1] \/ (a[1] = b[1] /\ a[2] < b[2])

RECURSIVE SortKeys(_)
SortKeys(S) ==
  IF S = {} THEN <<>>
  ELSE LET m == CHOOSE x \in S : \A y \in S : x = y \/ KeyLess(x, y)
       IN  <<m>> \o SortKeys(S \ {m})

GroupKey(row) == <<row.dteday, row.workingday>>

(* variant: agg 'last' instead of 'sum' *)
RECURSIVE GroupLast(_, _, _)
GroupLast(rows, key, c) ==
  IF rows = <<>> THEN 0
  ELSE IF GroupKey(rows[Len(rows)]) = key THEN rows[Len(rows)][c]
  ELSE GroupLast(SubSeq(rows, 1, Len(rows) - 1), key, c)

RECURSIVE GroupSum(_, _, _)
GroupSum(rows, key, c) ==
  IF rows = <<>> THEN 0
  ELSE (IF GroupKey(Head(rows)) = key THEN Head(rows)[c] ELSE 0)
       + GroupSum(Tail(rows), key, c)

(* variant: grouped by dteday alone, workingday taken from the first row   *)
(* of the group                                                            *)
RECURSIVE DaySum(_, _, _)
DaySum(rows, day, c) ==
  IF rows = <<>> THEN 0
  ELSE (IF Head(rows).dteday = day THEN Head(rows)[c] ELSE 0)
       + DaySum(Tail(rows), day, c)

FirstOfDay(rows, day) ==
  rows[Min({k \in 1..Len(rows) : rows[k].dteday = day})]

groupby_sum_by_date(df) ==
  LET keys == SortKeys({<<df.rows[k].dteday, 0>> : k \in 1..Len(df.rows)})
  IN  [columns |-> <<"dteday", "workingday", "casual", "registered", "cnt">>,
       index   |-> [k \in 1..Len(keys) |-> k - 1],
       rows    |-> [k \in 1..Len(keys) |->
                      [dteday     |-> keys[k][1],
                       workingday |-> FirstOfDay(df.rows, keys[k][1]).workingday,
                       casual     |-> DaySum(df.rows, keys[k][1], "casual"),
                       registered |-> DaySum(df.rows, keys[k][1], "registered"),
                       cnt        |-> DaySum(df.rows, keys[k][1], "cnt")]]]

groupby_sum(df) ==
  LET keys == SortKeys({GroupKey(df.rows[k]) : k \in 1..Len(df.rows)})
  IN  [columns |-> <<"dteday", "workingday", "casual", "registered", "cnt">>,
       index   |-> [k \in 1..Len(keys) |-> k - 1],
       rows    |-> [k \in 1..Len(keys) |->
                      [dteday     |-> keys[k][1],
                       workingday |-> keys[k][2],
                       casual     |-> GroupSum(df.rows, keys[k], "casual"),
                       registered |-> GroupSum(df.rows, keys[k], "registered"),
                       cnt        |-> GroupSum(df.rows, keys[k], "cnt")]]]

(***************************************************************************)
(* The st.metric totals of lines 57-61: the column sums of filtered_df.    *)
(***************************************************************************)
NoMetrics == [cnt |-> 0, casual |-> 0, registered |-> 0]

column_sums(df) ==
  [cnt        |-> SumSeq(Column(df, "cnt")),
   casual     |-> SumSeq(Column(df, "casual")),
   registered |-> SumSeq(Column(df, "registered"))]

(***************************************************************************)
(* Lines 72-102: the column plotted for the selected user type and the     *)
(* two scatter traces, one per value of workingday.                        *)
(***************************************************************************)
(* variant: the Casual and Registered branches are swapped *)
select_y_column_swapped(ut) ==
  IF ut = "All" THEN "cnt"
  ELSE IF ut = "Casual" THEN "registered"
  ELSE "casual"

select_y_column(ut) ==
  IF ut = "All" THEN "cnt"
  ELSE IF ut = "Casual" THEN "casual"
  ELSE "registered"

workingday_mask(df, flag) ==
  [k \in 1..Len(df.rows) |-> df.rows[k].workingday = flag]

Scatter(df, flag, ycol, name) ==
  LET part == BoolIndex(df, workingday_mask(df, flag))
  IN  [name |-> name, x |-> Column(part, "dteday"), y |-> Column(part, ycol)]

add_traces(df, ycol) ==
  <<Scatter(df, 1, ycol, "Working Day"),
    Scatter(df, 0, ycol, "Non-working Day")>>

(***************************************************************************)
(* filtered_df[weather_vars].corr(): Pearson correlation of every pair of  *)
(* columns, min_periods = 1.  A coefficient is kept exactly, as its sign   *)
(* and its square in lowest terms; NaN is the undefined coefficient.       *)
(***************************************************************************)
NaN == [nan |-> TRUE, sign |-> 0, num |-> 0, den |-> 1]

Coefficient(sxy, sxx, syy) ==
  LET n == sxy * sxy
      d == sxx * syy
      g == Gcd(d, n)
  IN  [nan  |-> FALSE,
       sign |-> IF sxy > 0 THEN 1 ELSE IF sxy < 0 THEN -1 ELSE 0,
       num  |-> n \div g,
       den  |-> d \div g]

Products(x, y) == [k \in 1..Len(x) |-> x[k] * y[k]]

(* n times the sum of the products of the deviations from the means *)
Codeviation(x, y) ==
  Len(x) * SumSeq(Products(x, y)) - SumSeq(x) * SumSeq(y)

(* variant: the covariance is divided by the variance of x alone *)
pearson_slope(x, y) ==
  LET sxx == Codeviation(x, x)
      sxy == Codeviation(x, y)
  IN  IF Len(x) < 1 THEN NaN
      ELSE IF sxx = 0 THEN NaN
      ELSE Coefficient(sxy, sxx, sxx)

pearson(x, y) ==
  LET sxx == Codeviation(x, x)
      syy == Codeviation(y, y)
      sxy == Codeviation(x, y)
  IN  IF Len(x) < 1 THEN NaN
      ELSE IF sxx * syy = 0 THEN NaN
      ELSE Coefficient(sxy, sxx, syy)

NoMatrix == [columns |-> <<>>, index |-> <<>>, cell |-> <<>>]

corr(df, cols) ==
  [columns |-> cols,
   index   |-> cols,
   cell    |-> [i \in 1..Len(cols) |-> [j \in 1..Len(cols) |->
                  pearson(Column(df, cols[i]), Column(df, cols[j]))]]]

(***************************************************************************)
(* The contents of data/hour.csv the model is checked on.  A file row      *)
(* holds the documented columns; dteday is an ISO date.  Four families of  *)
(* files vary the columns one stage or another reads, and one file is the  *)
(* three-day scenario of the specification.                                *)
(***************************************************************************)
FileRow(day, wd, ws, t, at, h, w, c, r, n) ==
  [dteday |-> day, workingday |-> wd, weathersit |-> ws, temp |-> t,
   atemp |-> at, hum |-> h, windspeed |-> w, casual |-> c,
   registered |-> r, cnt |-> n]

SeqsOf(S, lo, hi) == UNION {[1..n -> S] : n \in lo..hi}

(* ridership: days, day types and counts vary; cnt may break the source    *)
(* invariant cnt = casual + registered                                     *)
RidershipRows ==
  {FileRow(d, wd, 1, 5, 5, 6, 2, c, MaxCasual + 1, c + MaxCasual + 1 + off) :
     d \in 1..MaxDay, wd \in {0, 1}, c \in 1..MaxCasual, off \in {0, 1}}

(* longer files with few keys, so that several rows share a group *)
GroupRows ==
  {FileRow(d, wd, 1, 5, 5, 6, 2, 1, 2, 3) : d \in 1..2, wd \in {0, 1}}

(* every weather situation with every temperature and humidity in tenths *)
GridRows ==
  {FileRow(1, 1, ws, t, 5, h, 2, 1, 2, 3) :
     ws \in 1..4, t \in 0..MaxTenth, h \in 0..MaxTenth}

(* several rows with differing weather *)
WeatherRows ==
  {FileRow(1, 1, ws, t, 5, h, 2, 1, 2, 3) :
     ws \in 1..4, t \in {5, 7}, h \in {3, 6}}

(* rows whose temp, hum and cnt vary while atemp and windspeed are constant *)
CorrRows ==
  {FileRow(1, 1, 1, t, 5, h, 2, 1, 2, n) :
     t \in {5, 7}, h \in {3, 6}, n \in {3, 4}}

(* rows that differ in the day, the day type and the temperature *)
DayRows ==
  {FileRow(d, wd, 1, 4 + d, 5, 6, 2, 1, 2, 3) : d \in 1..MaxDay, wd \in {0, 1}}

(* dates 1..3, working_day = [1,0,1], cnt = [10,20,30] *)
Scenario ==
  <<FileRow(1, 1, 1, 5, 5, 6, 2, 4, 6, 10),
    FileRow(2, 0, 1, 5, 5, 6, 2, 8, 12, 20),
    FileRow(3, 1, 1, 5, 5, 6, 2, 12, 18, 30)>>

Files ==
  SeqsOf(RidershipRows, 1, 2) \cup SeqsOf(GroupRows, 3, MaxRows + 1)
    \cup SeqsOf(GridRows, 1, 1) \cup SeqsOf(WeatherRows, 2, MaxRows)
    \cup SeqsOf(CorrRows, 2, MaxRows + 1) \cup {Scenario}

SmallFiles == SeqsOf(DayRows, 1, MaxRows) \cup {Scenario}

(***************************************************************************)
(* st.sidebar.date_input in range mode, bounded by the first and the last  *)
(* date of hour_df: a pair (start, end) with start <= end, or the 1-tuple  *)
(* it returns while only the start of the range has been picked.           *)
(***************************************************************************)
ObservedDates(df) == {dt_date(df.rows[k].dteday) : k \in 1..Len(df.rows)}

date_input(df) ==
  LET lo == Min(ObservedDates(df))
      hi == Max(ObservedDates(df))
  IN  {r \in (lo..hi) \X (lo..hi) : r[1] <= r[2]} \cup {<<s>> : s \in lo..hi}

(***************************************************************************)
(* The state before the first run of the script: nothing is memoized and   *)
(* no script variable is bound.                                            *)
(***************************************************************************)
NoRun == [set |-> FALSE, date_range |-> <<>>, user_type |-> "",
          daily_data |-> NoFrame, corr_matrix |-> NoMatrix]

Unbound ==
  /\ hour_df = NoFrame
  /\ date_range = <<>>
  /\ user_type = ""
  /\ fault = "none"
  /\ filtered_df = NoFrame
  /\ metrics = NoMetrics
  /\ daily_data = NoFrame
  /\ y_column = ""
  /\ fig = <<>>
  /\ corr_matrix = NoMatrix

Init ==
  /\ data_hour \in Files
  /\ cache_loaded = FALSE
  /\ cache = NoFrame
  /\ pc = "load_data"
  /\ ref = NoRun
  /\ Unbound

(* variant: every call reads the file again and appends it to the          *)
(* memoized frame                                                          *)
load_data_appending ==
  /\ pc = "load_data"
  /\ cache_loaded' = TRUE
  /\ cache' = IF cache_loaded
              THEN [columns |-> cache.columns,
                    index   |-> cache.index \o parse_hour(data_hour).index,
                    rows    |-> cache.rows \o parse_hour(data_hour).rows]
              ELSE parse_hour(data_hour)
  /\ hour_df' = cache'
  /\ pc' = "date_input"
  /\ UNCHANGED <<data_hour, date_range, user_type, fault, filtered_df,
                 metrics, daily_data, y_column, fig, corr_matrix, ref>>

(***************************************************************************)
(* Line 29, load_data under st.cache_data: the first call reads and        *)
(* memoizes the file, every call returns a copy of the memoized value.     *)
(***************************************************************************)
load_data ==
  /\ pc = "load_data"
  /\ cache_loaded' = TRUE
  /\ cache' = IF cache_loaded THEN cache ELSE parse_hour(data_hour)
  /\ hour_df' = cache'
  /\ pc' = "date_input"
  /\ UNCHANGED <<data_hour, date_range, user_type, fault, filtered_df,
                 metrics, daily_data, y_column, fig, corr_matrix, ref>>

(* lines 36-41 *)
DateInput ==
  /\ pc = "date_input"
  /\ date_range' \in date_input(hour_df)
  /\ pc' = "selectbox"
  /\ UNCHANGED <<data_hour, cache_loaded, cache, hour_df, user_type, fault,
                 filtered_df, metrics, daily_data, y_column, fig,
                 corr_matrix, ref>>

(* lines 44-47 *)
SelectBox ==
  /\ pc = "selectbox"
  /\ user_type' \in UserTypes
  /\ pc' = "filter"
  /\ UNCHANGED <<data_hour, cache_loaded, cache, hour_df, date_range, fault,
                 filtered_df, metrics, daily_data, y_column, fig,
                 corr_matrix, ref>>

(* lines 49-52; date_range[1] raises IndexError on a 1-tuple *)
Filter ==
  /\ pc = "filter"
  /\ IF Len(date_range) < 2
     THEN /\ fault' = "IndexError"
          /\ pc' = "error"
          /\ UNCHANGED filtered_df
     ELSE /\ filtered_df' = date_filter(hour_df, date_range)
          /\ pc' = "metrics"
          /\ UNCHANGED fault
  /\ UNCHANGED <<data_hour, cache_loaded, cache, hour_df, date_range,
                 user_type, metrics, daily_data, y_column, fig, corr_matrix,
                 ref>>

(* lines 54-61 *)
Metrics ==
  /\ pc = "metrics"
  /\ metrics' = column_sums(filtered_df)
  /\ pc' = "groupby"
  /\ UNCHANGED <<data_hour, cache_loaded, cache, hour_df, date_range,
                 user_type, fault, filtered_df, daily_data, y_column, fig,
                 corr_matrix, ref>>

(* lines 63-67 *)
GroupBy ==
  /\ pc = "groupby"
  /\ daily_data' = groupby_sum(filtered_df)
  /\ pc' = "traces"
  /\ UNCHANGED <<data_hour, cache_loaded, cache, hour_df, date_range,
                 user_type, fault, filtered_df, metrics, y_column, fig,
                 corr_matrix, ref>>

(* lines 69-121 *)
Traces ==
  /\ pc = "traces"
  /\ y_column' = select_y_column(user_type)
  /\ fig' = add_traces(daily_data, y_column')
  /\ pc' = "weather_desc"
  /\ UNCHANGED <<data_hour, cache_loaded, cache, hour_df, date_range,
                 user_type, fault, filtered_df, metrics, daily_data,
                 corr_matrix, ref>>

(* line 133: filtered_df['weather_desc'] = filtered_df['weathersit'].map(..) *)
WeatherDesc ==
  /\ pc = "weather_desc"
  /\ filtered_df' =
       SetColumn(filtered_df, "weather_desc",
                 [k \in 1..Len(filtered_df.rows) |->
                    weather_desc[filtered_df.rows[k].weathersit]])
  /\ pc' = "corr"
  /\ UNCHANGED <<data_hour, cache_loaded, cache, hour_df, date_range,
                 user_type, fault, metrics, daily_data, y_column, fig,
                 corr_matrix, ref>>

(* lines 199-201 *)
Corr ==
  /\ pc = "corr"
  /\ corr_matrix' = corr(filtered_df, weather_vars)
  /\ pc' = "categorize"
  /\ UNCHANGED <<data_hour, cache_loaded, cache, hour_df, date_range,
                 user_type, fault, filtered_df, metrics, daily_data,
                 y_column, fig, ref>>

(* line 213: filtered_df['weather_category'] = filtered_df.apply(categorize) *)
apply_categorize(df) == [k \in 1..Len(df.rows) |-> categorize(df.rows[k])]

Classify ==
  /\ pc = "categorize"
  /\ filtered_df' =
       SetColumn(filtered_df, "weather_category", apply_categorize(filtered_df))
  /\ pc' = "done"
  /\ UNCHANGED <<data_hour, cache_loaded, cache, hour_df, date_range,
                 user_type, fault, metrics, daily_data, y_column, fig,
                 corr_matrix, ref>>

(***************************************************************************)
(* A UI interaction reruns the script from the top in a fresh namespace;   *)
(* only the memoized data survives.                                        *)
(***************************************************************************)
Rerun ==
  /\ pc \in {"done", "error"}
  /\ pc' = "load_data"
  /\ hour_df' = NoFrame
  /\ date_range' = <<>>
  /\ user_type' = ""
  /\ fault' = "none"
  /\ filtered_df' = NoFrame
  /\ metrics' = NoMetrics
  /\ daily_data' = NoFrame
  /\ y_column' = ""
  /\ fig' = <<>>
  /\ corr_matrix' = NoMatrix
  /\ UNCHANGED <<data_hour, cache_loaded, cache, ref>>

(* the same interaction, with the inputs and the results of the finished   *)
(* run remembered for comparison with later runs                           *)
Remember ==
  /\ pc = "done"
  /\ ref' = [set |-> TRUE, date_range |-> date_range, user_type |-> user_type,
             daily_data |-> daily_data, corr_matrix |-> corr_matrix]
  /\ pc' = "load_data"
  /\ hour_df' = NoFrame
  /\ date_range' = <<>>
  /\ user_type' = ""
  /\ fault' = "none"
  /\ filtered_df' = NoFrame
  /\ metrics' = NoMetrics
  /\ daily_data' = NoFrame
  /\ y_column' = ""
  /\ fig' = <<>>
  /\ corr_matrix' = NoMatrix
  /\ UNCHANGED <<data_hour, cache_loaded, cache>>

Pipeline ==
  \/ Filter
  \/ Metrics
  \/ GroupBy
  \/ Traces
  \/ WeatherDesc
  \/ Corr
  \/ Classify

Next ==
  \/ load_data
  \/ DateInput
  \/ SelectBox
  \/ Pipeline
  \/ Rerun

Spec == Init /\ [][Next]_vars

(***************************************************************************)
(* The pipeline as a function of its inputs: the data is loaded and the    *)
(* interval is any pair of dates, inverted and out-of-range pairs too.     *)
(***************************************************************************)
InitPipeline ==
  /\ data_hour \in SmallFiles
  /\ cache_loaded = TRUE
  /\ cache = parse_hour(data_hour)
  /\ hour_df = cache
  /\ date_range \in (0..MaxDay + 1) \X (0..MaxDay + 1)
  /\ user_type \in UserTypes
  /\ pc = "filter"
  /\ ref = NoRun
  /\ fault = "none"
  /\ filtered_df = NoFrame
  /\ metrics = NoMetrics
  /\ daily_data = NoFrame
  /\ y_column = ""
  /\ fig = <<>>
  /\ corr_matrix = NoMatrix

SpecPipeline == InitPipeline /\ [][Pipeline]_vars

(***************************************************************************)
(* Reruns of the script with the results of an earlier run remembered.     *)
(***************************************************************************)
InitHistory ==
  /\ data_hour \in SmallFiles
  /\ cache_loaded = FALSE
  /\ cache = NoFrame
  /\ pc = "load_data"
  /\ ref = NoRun
  /\ Unbound

NextHistory == Next \/ Remember

SpecHistory == InitHistory /\ [][NextHistory]_vars

(***************************************************************************)
(*                              Properties                                 *)
(***************************************************************************)
FileDate(label) == data_hour[label + 1].dteday

Selected(label) ==
  date_range[1] <= FileDate(label) /\ FileDate(label) <= date_range[2]

Labels == {k - 1 : k \in 1..Len(data_hour)}

(* C1: once the filter has run on an interval [s, e] with s <= e, the      *)
(* filtered frame holds exactly the rows of hour_df whose calendar date is *)
(* in [s, e]: each returned row is such a row with its column values       *)
(* unaltered, every such row is returned once, and the result is no longer *)
(* than hour_df.                                                           *)
C1_FilterExact ==
  (pc = "metrics" /\ date_range[1] <= date_range[2]) =>
    /\ filtered_df.columns = hour_df.columns
    /\ Len(filtered_df.index) = Len(filtered_df.rows)
    /\ Len(filtered_df.rows) <= Len(hour_df.rows)
    /\ \A k \in 1..Len(filtered_df.rows) :
         /\ filtered_df.index[k] \in Labels
         /\ Selected(filtered_df.index[k])
         /\ filtered_df.rows[k] = hour_df.rows[filtered_df.index[k] + 1]
    /\ \A l \in Labels :
         Selected(l) =>
           Cardinality({k \in 1..Len(filtered_df.rows) :
                          filtered_df.index[k] = l}) = 1

C1_Witness ==
  /\ pc = "metrics"
  /\ date_range[1] < date_range[2]
  /\ Len(filtered_df.rows) >= 2
  /\ Len(filtered_df.rows) < Len(hour_df.rows)

(* the ordered rules of the classifier as the specification lists them *)
Rules ==
  <<[category |-> "Ideal",    situations |-> {1},    temp |-> 6, hum |-> 5],
    [category |-> "Good",     situations |-> {1, 2}, temp |-> 4, hum |-> 7],
    [category |-> "Moderate", situations |-> {2, 3}, temp |-> 2, hum |-> 8]>>

Matches(rule, ws, t, h) ==
  ws \in rule.situations /\ t > rule.temp /\ h < rule.hum

FirstMatch(ws, t, h) ==
  LET hits == {n \in 1..Len(Rules) : Matches(Rules[n], ws, t, h)}
  IN  IF hits = {} THEN "Poor" ELSE Rules[Min(hits)].category

Classified == pc = "done"

Triple(row) == <<row.weathersit, row.temp, row.hum>>

(* C2: every classified row carries the category of the first rule of the  *)
(* ordered chain Ideal, Good, Moderate that its weather situation,         *)
(* temperature and humidity match, or Poor when none matches; (1, 0.7,     *)
(* 0.3) is Ideal, (3, 0.7, 0.3) is Moderate and (2, 0.5, 0.6) is Good.     *)
C2_FirstMatchWins ==
  Classified =>
    \A k \in 1..Len(filtered_df.rows) :
      LET row == filtered_df.rows[k]
      IN  /\ row.weather_category = FirstMatch(row.weathersit, row.temp, row.hum)
          /\ Triple(row) = <<1, 7, 3>> => row.weather_category = "Ideal"
          /\ Triple(row) = <<3, 7, 3>> => row.weather_category = "Moderate"
          /\ Triple(row) = <<2, 5, 6>> => row.weather_category = "Good"

C2_Witness ==
  /\ Classified
  /\ \E k \in 1..Len(filtered_df.rows) :
       /\ Triple(filtered_df.rows[k]) = <<2, 5, 6>>
       /\ filtered_df.rows[k].weather_category = "Good"

(* C3: the classifier is total and deterministic: every row of the         *)
(* filtered frame gets one category out of Ideal, Good, Moderate, Poor,    *)
(* and rows that agree on weather situation, temperature and humidity get  *)
(* the same category whatever the other rows are.                          *)
C3_TotalDeterministic ==
  Classified =>
    /\ \A k \in 1..Len(filtered_df.rows) :
         filtered_df.rows[k].weather_category \in Range(category_orders)
    /\ \A k1, k2 \in 1..Len(filtered_df.rows) :
         Triple(filtered_df.rows[k1]) = Triple(filtered_df.rows[k2]) =>
           filtered_df.rows[k1].weather_category
             = filtered_df.rows[k2].weather_category

C3_Witness ==
  /\ Classified
  /\ \E k1, k2, k3 \in 1..Len(filtered_df.rows) :
       /\ k1 # k2
       /\ Triple(filtered_df.rows[k1]) = Triple(filtered_df.rows[k2])
       /\ filtered_df.rows[k3].weather_category
            # filtered_df.rows[k1].weather_category

Aggregated == pc = "traces"

Total(df, c) == SumSeq(Column(df, c))

SourceInvariant(df) ==
  \A k \in 1..Len(df.rows) :
    df.rows[k].cnt = df.rows[k].casual + df.rows[k].registered

(* C4: summing per (dteday, workingday) preserves the grand totals: each   *)
(* of casual, registered and cnt summed over all aggregate rows equals the *)
(* metric total of the filtered rows, and when every filtered row has      *)
(* cnt = casual + registered so does every aggregate row and the total.    *)
C4_TotalsPreserved ==
  Aggregated =>
    /\ Total(daily_data, "casual") = metrics.casual
    /\ Total(daily_data, "registered") = metrics.registered
    /\ Total(daily_data, "cnt") = metrics.cnt
    /\ metrics.cnt = Total(filtered_df, "cnt")
    /\ SourceInvariant(filtered_df) =>
         /\ SourceInvariant(daily_data)
         /\ metrics.casual + metrics.registered = metrics.cnt

C4_Witness ==
  /\ Aggregated
  /\ SourceInvariant(filtered_df)
  /\ Len(daily_data.rows) < Len(filtered_df.rows)
  /\ \E k1, k2 \in 1..Len(daily_data.rows) :
       daily_data.rows[k1].workingday = 1 /\ daily_data.rows[k2].workingday = 0

DatePairs(df) ==
  {<<dt_date(df.rows[k].dteday), df.rows[k].workingday>> :
     k \in 1..Len(df.rows)}

(* C5: the aggregate frame has exactly one row per distinct (date,         *)
(* working day) pair of the filtered rows and none for an absent pair; an  *)
(* empty filtered frame gives an empty aggregate frame and no fault.       *)
C5_OneRowPerPair ==
  Aggregated =>
    /\ DatePairs(daily_data) = DatePairs(filtered_df)
    /\ Len(daily_data.rows) = Cardinality(DatePairs(filtered_df))
    /\ filtered_df.rows = <<>> => (daily_data.rows = <<>> /\ fault = "none")

C5_Witness ==
  /\ Aggregated
  /\ Len(daily_data.rows) >= 2
  /\ Len(daily_data.rows) < Len(filtered_df.rows)

(* the empty case of C5 occurs: a date gap leaves no filtered row *)
C5_EmptyReached == Aggregated /\ filtered_df.rows = <<>>

Filtered == pc \notin {"load_data", "date_input", "selectbox", "filter", "error"}

Inverted == date_range[1] > date_range[2]

OutOfRange ==
  \/ date_range[1] < Min(ObservedDates(hour_df))
  \/ date_range[2] > Max(ObservedDates(hour_df))

(* C6: for any pair of dates, inverted or outside the observed dates too,  *)
(* the filter and every later stage run without a fault up to the end of   *)
(* the script, and an inverted pair gives an empty filtered frame.         *)
C6_NoFaultOnAnyInterval ==
  /\ fault = "none"
  /\ pc # "error"
  /\ pc # "done" => ENABLED Pipeline
  /\ (Filtered /\ Inverted) => filtered_df.rows = <<>>

C6_Witness ==
  /\ pc = "done"
  /\ Inverted
  /\ OutOfRange
  /\ filtered_df.rows = <<>>
  /\ daily_data.rows = <<>>

(* the out-of-range case of C6 occurs with rows left in the frame *)
C6_OutOfRangeReached ==
  pc = "done" /\ ~Inverted /\ OutOfRange /\ filtered_df.rows # <<>>

LaterStage == pc \in {"metrics", "groupby", "traces", "weather_desc", "corr",
                       "categorize"}

(* C7 as stated: no stage after the filter changes the filtered frame      *)
(* (same rows, same columns) or the loaded hourly frame.                   *)
C7_FilteredFrameUntouched ==
  [][LaterStage => (filtered_df' = filtered_df /\ hour_df' = hour_df)]_vars

IsPrefix(a, b) == Len(a) <= Len(b) /\ \A k \in 1..Len(a) : a[k] = b[k]

DerivedColumns == {"weather_desc", "weather_category"}

(* C7 amended: no stage after the filter changes the loaded hourly frame   *)
(* or the memoized data, and none changes the index, the rows or the       *)
(* values of the existing columns of the filtered frame; a stage only      *)
(* appends the derived columns weather_desc and weather_category to the    *)
(* filtered frame, and the hourly frame never gets them.                   *)
C7_OnlyDerivedColumnsAdded ==
  [][LaterStage =>
       /\ hour_df' = hour_df
       /\ cache' = cache
       /\ Range(hour_df'.columns) \cap DerivedColumns = {}
       /\ filtered_df'.index = filtered_df.index
       /\ Len(filtered_df'.rows) = Len(filtered_df.rows)
       /\ IsPrefix(filtered_df.columns, filtered_df'.columns)
       /\ Range(filtered_df'.columns) \ Range(filtered_df.columns)
            \subseteq DerivedColumns
       /\ \A k \in 1..Len(filtered_df.rows) :
            /\ DOMAIN filtered_df'.rows[k] = Range(filtered_df'.columns)
            /\ \A c \in Range(filtered_df.columns) :
                 filtered_df'.rows[k][c] = filtered_df.rows[k][c]]_vars

C7_Witness ==
  /\ pc = "done"
  /\ filtered_df.rows # <<>>
  /\ filtered_df.index[1] # 0
  /\ DerivedColumns \subseteq Range(filtered_df.columns)
  /\ Range(hour_df.columns) \cap DerivedColumns = {}

Correlated == pc = "categorize"

Constant(df, c) ==
  \A k1, k2 \in 1..Len(df.rows) : df.rows[k1][c] = df.rows[k2][c]

One == [nan |-> FALSE, sign |-> 1, num |-> 1, den |-> 1]

(* C8: the correlation matrix is square over temp, atemp, hum, windspeed,  *)
(* cnt and symmetric; the diagonal entry of a column that is not constant  *)
(* over the filtered rows is 1.0, and an entry is undefined only when one  *)
(* of its two columns is constant over the filtered rows.                  *)
C8_CorrMatrixShape ==
  Correlated =>
    /\ corr_matrix.columns = weather_vars
    /\ corr_matrix.index = weather_vars
    /\ DOMAIN corr_matrix.cell = 1..Len(weather_vars)
    /\ \A i, j \in 1..Len(weather_vars) :
         /\ DOMAIN corr_matrix.cell[i] = 1..Len(weather_vars)
         /\ corr_matrix.cell[i][j] = corr_matrix.cell[j][i]
         /\ corr_matrix.cell[i][j].nan =>
              \/ Constant(filtered_df, weather_vars[i])
              \/ Constant(filtered_df, weather_vars[j])
    /\ \A i \in 1..Len(weather_vars) :
         ~Constant(filtered_df, weather_vars[i]) => corr_matrix.cell[i][i] = One

C8_Witness ==
  /\ Correlated
  /\ \E i, j \in 1..Len(weather_vars) :
       /\ ~corr_matrix.cell[i][j].nan
       /\ corr_matrix.cell[i][j].num # corr_matrix.cell[i][j].den
       /\ corr_matrix.cell[i][j].sign = -1
       /\ corr_matrix.cell[i][i] = One
  /\ \E i \in 1..Len(weather_vars) : corr_matrix.cell[i][i].nan

SameInputs == ref.date_range = date_range /\ ref.user_type = user_type

(* C9: a run of the script with the same date interval and user type as an *)
(* earlier run on the same memoized data ends with the same aggregate rows *)
(* and the same correlation matrix as that earlier run.                    *)
C9_RerunIdentical ==
  (pc = "done" /\ ref.set /\ SameInputs) =>
    /\ daily_data = ref.daily_data
    /\ corr_matrix = ref.corr_matrix

C9_Witness ==
  /\ pc = "done"
  /\ ref.set
  /\ SameInputs
  /\ Len(daily_data.rows) >= 1
  /\ Len(filtered_df.rows) < Len(hour_df.rows)

Plotted == pc = "weather_desc"

ColumnOf(ut) ==
  CASE ut = "All" -> "cnt" [] ut = "Casual" -> "casual"
    [] ut = "Registered" -> "registered"

Points(trace) == {<<trace.x[k], trace.y[k]>> : k \in 1..Len(trace.x)}

RowPoints(flag) ==
  {<<daily_data.rows[k].dteday, daily_data.rows[k][ColumnOf(user_type)]>> :
     k \in {n \in 1..Len(daily_data.rows) : daily_data.rows[n].workingday = flag}}

RowsOf(flag) ==
  Cardinality({k \in 1..Len(daily_data.rows) :
                 daily_data.rows[k].workingday = flag})

(* C10: the time-series view has a Working Day series with one point per   *)
(* aggregate row of working day 1 and a Non-working Day series with one    *)
(* point per aggregate row of working day 0, each point being the row's    *)
(* date and its sum of the column of the selected user type, so that the   *)
(* two series cover every aggregate row once.  On the three-day scenario   *)
(* filtered to days 1..2 there are 2 rows, sum(cnt) = 30, one Working Day  *)
(* point (10) and one Non-working Day point (20).                          *)
C10_TwoSeries ==
  Plotted =>
    /\ Len(fig) = 2
    /\ fig[1].name = "Working Day"
    /\ fig[2].name = "Non-working Day"
    /\ \A n \in 1..2 : Len(fig[n].x) = Len(fig[n].y)
    /\ Points(fig[1]) = RowPoints(1)
    /\ Points(fig[2]) = RowPoints(0)
    /\ Len(fig[1].x) = RowsOf(1)
    /\ Len(fig[2].x) = RowsOf(0)
    /\ Len(fig[1].x) + Len(fig[2].x) = Len(daily_data.rows)
    /\ (data_hour = Scenario /\ date_range = <<1, 2>>) =>
         /\ Len(filtered_df.rows) = 2
         /\ metrics.cnt = 30
         /\ user_type = "All" =>
              /\ fig[1].y = <<10>>
              /\ fig[2].y = <<20>>
              /\ fig[1].x = <<to_datetime(1)>>
              /\ fig[2].x = <<to_datetime(2)>>

C10_Witness ==
  /\ Plotted
  /\ data_hour = Scenario
  /\ date_range = <<1, 2>>
  /\ user_type = "All"
  /\ Len(fig[1].x) = 1
  /\ Len(fig[2].x) = 1

====
